---- MODULE Spec2Model ----
(***************************************************************************)
(* State-machine model of the happiness / weather warehouse ETL scripts:   *)
(*   etl_weather.py   fetch_coordinates, fetch_and_load_weather            *)
(*   etl_happiness.py load_happiness_data                                  *)
(*   generate_happiness_report.py HappinessReportGenerator                 *)
(* Text values that the code inspects character by character (weather      *)
(* descriptions, coordinate strings) are sequences of one-character        *)
(* strings; the database is a committed state plus the open transaction's  *)
(* view of it.                                                             *)
(***************************************************************************)
EXTENDS Integers, Sequences, FiniteSets, TLC

VARIABLES
    \* ---- warehouse (shared by the three scripts) ----
    db,           \* committed dim_city / fact_weather_snapshot rows
    country,      \* committed dim_country rows
    \* ---- fetch_and_load_weather ----
    wpc,          \* position of the weather loader
    idx,          \* index into CITIES of the city being processed
    lat, lon,     \* coordinates returned by fetch_coordinates
    city_id,      \* id returned by the dim_city upsert
    wx,           \* the row values prepared from the weather response
    tx,           \* the open transaction's view of dim_city / fact_weather_snapshot
    now,          \* the fetch timestamp of the current run
    fetched,      \* cities of the current run whose weather response was complete
    loaded,       \* cities of the current run whose transaction was committed
    dbCalls,      \* the database calls made by the latest step, in order
    txnUpserts,   \* city ids upserted in the open transaction
    logged,       \* the log records written by the latest step
    \* ---- weather code mapping, applied on its own ----
    codeIn, codeDesc, codeMain, codePc,
    \* ---- load_happiness_data ----
    csv,          \* the data rows of world_happiness_2024.csv, in file order
    hpc,          \* position of the happiness loader
    hIdx,         \* index of the next CSV row to upsert
    countryTx,    \* the open transaction's view of dim_country
    countryAtStart, \* committed dim_country when the current load began
    upserts,      \* upsert statements executed by the current load
    commits,      \* commits made by the current load
    printed,      \* the rows printed under "Top 5 happiest:"
    loads,        \* number of loads started
    completed,    \* number of loads that reached the end
    \* ---- HappinessReportGenerator ----
    rpc,          \* position of generate_report
    today,        \* CURRENT_DATE of the report query
    df,           \* the query result held by the generator
    stats,        \* result of calculate_statistics
    written,      \* files written by this invocation
    cause         \* why generate_report raised

wvars == <<wpc, idx, lat, lon, city_id, wx, tx, now, fetched, loaded, dbCalls,
           txnUpserts, logged>>
cvars == <<codeIn, codeDesc, codeMain, codePc>>
hvars == <<csv, hpc, hIdx, countryTx, countryAtStart, upserts, commits, printed,
           loads, completed>>
rvars == <<rpc, today, df, stats, written, cause>>
vars == <<db, country, wvars, cvars, hvars, rvars>>

NULL == "NULL"

\* A Python value that is None or a number: <<>> is None, <<v>> the number v
None == <<>>
Some(v) == <<v>>

\* what each script leaves alone
WeatherFrame == UNCHANGED <<country, cvars, hvars, rvars>>
CodeFrame == UNCHANGED <<db, country, wvars, hvars, rvars>>
HappyFrame == UNCHANGED <<db, wvars, cvars, rvars>>
ReportFrame == UNCHANGED <<db, country, wvars, cvars, hvars>>

\* --------------------------------------------------------------------------
\* Bounds of the model
\* --------------------------------------------------------------------------
NumCities == 3
MaxCode == 100
MaxRows == 6
MaxLoads == 2

\* --------------------------------------------------------------------------
\* Text helpers
\* --------------------------------------------------------------------------
Digits == <<"0", "1", "2", "3", "4", "5", "6", "7", "8", "9">>

IsSpace(c) == c = " "

DigitChar(d) == Digits[d + 1]

RECURSIVE NatToStr(_)
NatToStr(n) == IF n < 10 THEN <<DigitChar(n)>>
               ELSE Append(NatToStr(n \div 10), DigitChar(n % 10))

\* str(int) as an f-string renders it
IntToStr(n) == IF n < 0 THEN <<"-">> \o NatToStr(-n) ELSE NatToStr(n)

\* str.split(): the maximal runs of non-whitespace characters
RECURSIVE SplitFrom(_, _, _)
SplitFrom(s, cur, acc) ==
    IF s = <<>> THEN (IF cur = <<>> THEN acc ELSE Append(acc, cur))
    ELSE IF IsSpace(Head(s))
         THEN SplitFrom(Tail(s), <<>>, IF cur = <<>> THEN acc ELSE Append(acc, cur))
         ELSE SplitFrom(Tail(s), Append(cur, Head(s)), acc)

Split(s) == SplitFrom(s, <<>>, <<>>)

\* float(s) of a coordinate string: an optional sign and decimal digits; any
\* other text makes float() raise ValueError
IsDigit(c) == \E d \in 0..9 : DigitChar(d) = c

DigitVal(c) == CHOOSE d \in 0..9 : DigitChar(d) = c

RECURSIVE ParseNat(_, _)
ParseNat(s, acc) == IF s = <<>> THEN acc
                    ELSE ParseNat(Tail(s), 10 * acc + DigitVal(Head(s)))

IsNumeric(s) ==
    LET body == IF s # <<>> /\ Head(s) = "-" THEN Tail(s) ELSE s
    IN  body # <<>> /\ \A i \in 1..Len(body) : IsDigit(body[i])

ParseFloat(s) == IF Head(s) = "-" THEN 0 - ParseNat(Tail(s), 0) ELSE ParseNat(s, 0)

\* Python truth value of a coordinate: None and 0.0 are both false
Falsy(x) == x = None \/ x = Some(0)

\* --------------------------------------------------------------------------
\* config.py and the alias table
\* --------------------------------------------------------------------------
\* A configured "City,Country" string, held as its comma-separated parts
AllCities == << <<"Nairobi", "Kenya">>, <<"London", "UK">>, <<"Paris", "France">>,
                <<"Dubai", "UAE">>, <<"Istanbul", "Turkey">> >>

CITIES == SubSeq(AllCities, 1, NumCities)

COUNTRY_MAPPING(raw) ==
    CASE raw = "UK" -> "United Kingdom"
      [] raw = "US" -> "United States"
      [] raw = "UAE" -> "United Arab Emirates"
      [] raw = "Turkey" -> "Turkiye"
      [] OTHER -> raw

\* city.split(",")[-1].strip(), then the alias lookup
CountryOf(city) == COUNTRY_MAPPING(city[Len(city)])

\* --------------------------------------------------------------------------
\* Weather code -> description / category (etl_weather.py lines 74-82)
\* --------------------------------------------------------------------------
DescribedCodes == {0, 1, 2, 3, 45, 48, 51, 61, 71, 80, 95}

descriptions(code) ==
    CASE code = 0 -> <<"C", "l", "e", "a", "r", " ", "s", "k", "y">>
      [] code = 1 -> <<"M", "a", "i", "n", "l", "y", " ", "c", "l", "e", "a", "r">>
      [] code = 2 -> <<"P", "a", "r", "t", "l", "y", " ", "c", "l", "o", "u", "d", "y">>
      [] code = 3 -> <<"O", "v", "e", "r", "c", "a", "s", "t">>
      [] code = 45 -> <<"F", "o", "g">>
      [] code = 48 -> <<"D", "e", "p", "o", "s", "i", "t", "i", "n", "g", " ", "r", "i", "m", "e", " ", "f", "o", "g">>
      [] code = 51 -> <<"L", "i", "g", "h", "t", " ", "d", "r", "i", "z", "z", "l", "e">>
      [] code = 61 -> <<"R", "a", "i", "n">>
      [] code = 71 -> <<"S", "n", "o", "w">>
      [] code = 80 -> <<"R", "a", "i", "n", " ", "s", "h", "o", "w", "e", "r", "s">>
      [] code = 95 -> <<"T", "h", "u", "n", "d", "e", "r", "s", "t", "o", "r", "m">>

WeatherCodePrefix == <<"W", "e", "a", "t", "h", "e", "r", " ", "c", "o", "d", "e", " ">>

Clouds == <<"C", "l", "o", "u", "d", "s">>

\* descriptions.get(code, f"Weather code {code}")
WeatherDesc(code) ==
    IF code \in DescribedCodes THEN descriptions(code)
    ELSE WeatherCodePrefix \o IntToStr(code)

InCloudRangeOffByOne(code) == 1 < code /\ code <= 3

InCloudRange(code) == 1 <= code /\ code <= 3

\* "Clouds" if 1 <= code <= 3 else weather_desc.split()[0]
WeatherMain(code, weather_desc) ==
    IF InCloudRange(code) THEN Clouds ELSE Split(weather_desc)[1]

\* --------------------------------------------------------------------------
\* fetch_coordinates (etl_weather.py lines 19-30)
\* --------------------------------------------------------------------------
\* the first element of the geocoder's JSON array: lat and lon are strings
GeoMatches ==
    {[lat |-> <<"-", "1">>, lon |-> <<"3", "7">>],
     [lat |-> <<"0">>, lon |-> <<"3", "7">>],
     [lat |-> <<"5", "1">>, lon |-> <<"0">>],
     [lat |-> <<"n", "a">>, lon |-> <<"3", "7">>]}

GeoResponses ==
    {[raises |-> TRUE, status |-> 0, results |-> <<>>]} \cup
    {[raises |-> FALSE, status |-> s, results |-> r] :
        s \in {200, 503}, r \in {<<>>} \cup {<<m>> : m \in GeoMatches}}

NotFound(warned) == [lat |-> None, lon |-> None, warned |-> warned]

fetch_coordinates(resp) ==
    IF resp.raises THEN NotFound(TRUE)
    ELSE IF resp.status = 200 /\ resp.results # <<>>
         THEN LET data == resp.results[1]
              IN  IF IsNumeric(data.lat) /\ IsNumeric(data.lon)
                  THEN [lat |-> Some(ParseFloat(data.lat)),
                        lon |-> Some(ParseFloat(data.lon)), warned |-> FALSE]
                  ELSE NotFound(TRUE)
         ELSE NotFound(FALSE)

\* --------------------------------------------------------------------------
\* The weather API response and the row prepared from it (lines 71-92)
\* --------------------------------------------------------------------------
CurrentFields == {"temperature_2m", "apparent_temperature", "relative_humidity_2m",
                  "weather_code", "wind_speed_10m"}

WeatherCodes == {0, 999}

FullCurrent(code) ==
    [temperature_2m |-> 21, apparent_temperature |-> 20, relative_humidity_2m |-> 60,
     weather_code |-> code, wind_speed_10m |-> 4]

Without(rec, field) == [f \in (DOMAIN rec) \ {field} |-> rec[f]]

NoBody == [none |-> TRUE]

ErrorBody == [error |-> TRUE, reason |-> "unavailable"]

\* body = the decoded JSON object: a function from its keys to their values
WeatherResponses ==
    {[raises |-> TRUE, status |-> 0, body |-> NoBody]} \cup
    {[raises |-> FALSE, status |-> 500, body |-> ErrorBody]} \cup
    {[raises |-> FALSE, status |-> 200, body |-> ErrorBody]} \cup
    {[raises |-> FALSE, status |-> 200, body |-> [current |-> Without(FullCurrent(2), f)]] :
        f \in {"weather_code", "wind_speed_10m"}} \cup
    {[raises |-> FALSE, status |-> 200, body |-> [current |-> FullCurrent(c)]] :
        c \in WeatherCodes}

KeyError == [error |-> "KeyError"]

\* lines 73-92: the values bound to the snapshot insert, or the KeyError raised
\* by a missing key
SnapshotValues(resp) ==
    IF "current" \notin DOMAIN resp.body THEN KeyError
    ELSE LET data == resp.body["current"]
         IN  IF ~(CurrentFields \subseteq DOMAIN data) THEN KeyError
             ELSE LET code == data["weather_code"]
                      weather_desc == WeatherDesc(code)
                      weather_main == WeatherMain(code, weather_desc)
                  IN  [error |-> "none",
                       row |-> [temperature_celsius |-> data["temperature_2m"],
                                feels_like_celsius |-> data["apparent_temperature"],
                                humidity_percent |-> data["relative_humidity_2m"],
                                weather_main |-> weather_main,
                                weather_description |-> weather_desc,
                                wind_speed_mps |-> data["wind_speed_10m"]]]

\* the row values of a complete response carrying the given code
LoadedValues(code) ==
    SnapshotValues([raises |-> FALSE, status |-> 200,
                    body |-> [current |-> FullCurrent(code)]]).row

\* --------------------------------------------------------------------------
\* The two SQL statements and the transaction calls
\* --------------------------------------------------------------------------
EmptyDb == [city |-> {}, snap |-> {}]

\* the id dim_city gives a new row: one no row of the table carries
FreshCityId(t) ==
    CHOOSE i \in 1..(Cardinality(t.city) + 1) :
        /\ \A r \in t.city : r.city_id # i
        /\ \A j \in 1..(i - 1) : \E r \in t.city : r.city_id = j

CityInsertAlways(t, city, cname) ==
    [tx |-> [t EXCEPT !.city = t.city \cup
                {[city_id |-> FreshCityId(t), city_name |-> city, country_name |-> cname]}],
     city_id |-> FreshCityId(t)]

\* INSERT INTO dim_city ... ON CONFLICT (city_name) DO UPDATE ... RETURNING city_id
city_insert_query(t, city, cname) ==
    IF \E r \in t.city : r.city_name = city
    THEN LET r == CHOOSE r \in t.city : r.city_name = city
         IN  [tx |-> [t EXCEPT !.city = (t.city \ {r}) \cup
                                        {[r EXCEPT !.country_name = cname]}],
              city_id |-> r.city_id]
    ELSE [tx |-> [t EXCEPT !.city = t.city \cup
                     {[city_id |-> FreshCityId(t), city_name |-> city,
                       country_name |-> cname]}],
          city_id |-> FreshCityId(t)]

\* the unique key of fact_weather_snapshot that ON CONFLICT DO NOTHING meets
SnapshotKey(row) == <<row.city_id, row.fetch_date>>

InsertAlways(t, row) == [t EXCEPT !.snap = t.snap \cup {row}]

\* INSERT INTO fact_weather_snapshot ... ON CONFLICT DO NOTHING
weather_insert_query(t, row) ==
    IF \E s \in t.snap : SnapshotKey(s) = SnapshotKey(row)
    THEN t
    ELSE [t EXCEPT !.snap = t.snap \cup {row}]

\* conn.commit(): the transaction's view becomes the committed state
Commit(committed, pending) == pending

RollbackNothing(committed, pending) == pending

RollbackToEmpty(committed, pending) == EmptyDb

\* conn.rollback(): the transaction's writes are discarded
Rollback(committed, pending) == committed

\* --------------------------------------------------------------------------
\* fetch_and_load_weather (etl_weather.py lines 32-103)
\* --------------------------------------------------------------------------
N == Len(CITIES)


WeatherIdle ==
    /\ wpc = "idle" /\ idx = 0 /\ lat = None /\ lon = None /\ city_id = 0
    /\ wx = NULL /\ tx = EmptyDb /\ now = 1
    /\ fetched = {} /\ loaded = {} /\ dbCalls = <<>> /\ txnUpserts = {} /\ logged = {}

\* the loop header: the next city, or past the loop to cur.close()
Advance ==
    /\ idx' = idx + 1
    /\ wpc' = IF idx + 1 > N THEN "close" ELSE "geo"

\* lines 33-34: the script connects; its fetch timestamp is that of the rows
\* already in the warehouse or a later one
StartRun ==
    /\ WeatherFrame
    /\ wpc = "idle"
    /\ now' \in {now, now + 1}
    /\ tx' = db
    /\ idx' = 1
    /\ wpc' = IF N = 0 THEN "close" ELSE "geo"
    /\ lat' = None /\ lon' = None /\ city_id' = 0 /\ wx' = NULL
    /\ fetched' = {} /\ loaded' = {} /\ dbCalls' = <<"connect">> /\ txnUpserts' = {}
    /\ logged' = {}
    /\ UNCHANGED db

SkipCheckMissing(la, lo) == FALSE

\* line 53: if not lat or not lon
SkipCity(la, lo) == Falsy(la) \/ Falsy(lo)

\* lines 51-54: geocode the city and skip it when coordinates are missing
Geocode ==
    /\ WeatherFrame
    /\ wpc = "geo"
    /\ \E resp \in GeoResponses :
         LET c == fetch_coordinates(resp)
         IN  /\ lat' = c.lat
             /\ lon' = c.lon
             /\ logged' = IF c.warned THEN {[level |-> "warning", city |-> idx]} ELSE {}
             /\ IF SkipCity(c.lat, c.lon)
                THEN Advance
                ELSE /\ wpc' = "upsert"
                     /\ UNCHANGED idx
    /\ dbCalls' = <<>>
    /\ UNCHANGED <<db, city_id, wx, tx, now, fetched, loaded, txnUpserts>>

HandleDbErrorAbort(failed) ==
    /\ tx' = Rollback(db, tx)
    /\ txnUpserts' = {}
    /\ logged' = {[level |-> "error", city |-> idx]}
    /\ dbCalls' = <<failed, "rollback">>
    /\ wpc' = "crashed"
    /\ idx' = idx

\* lines 96-99: except psycopg2.Error: rollback, log, continue
HandleDbError(failed) ==
    /\ tx' = Rollback(db, tx)
    /\ txnUpserts' = {}
    /\ logged' = {[level |-> "error", city |-> idx]}
    /\ dbCalls' = <<failed, "rollback">>
    /\ Advance

\* lines 56-61: derive the country, upsert the city row, read back its id
UpsertCity ==
    /\ WeatherFrame
    /\ wpc = "upsert"
    /\ \E dbError \in BOOLEAN :
         IF dbError
         THEN /\ HandleDbError("execute city_insert_query")
              /\ UNCHANGED city_id
         ELSE LET r == city_insert_query(tx, CITIES[idx], CountryOf(CITIES[idx]))
              IN  /\ tx' = r.tx
                  /\ city_id' = r.city_id
                  /\ txnUpserts' = txnUpserts \cup {r.city_id}
                  /\ dbCalls' = <<"execute city_insert_query", "fetchone">>
                  /\ logged' = {}
                  /\ wpc' = "fetch"
                  /\ UNCHANGED idx
    /\ UNCHANGED <<db, lat, lon, wx, now, fetched, loaded>>

\* lines 63-82: request the current weather and prepare the row values; an
\* exception here is no psycopg2.Error, so it leaves the function
FetchWeather ==
    /\ WeatherFrame
    /\ wpc = "fetch"
    /\ \E resp \in WeatherResponses :
         IF resp.raises
         THEN /\ wpc' = "crashed"
              /\ UNCHANGED <<idx, wx, fetched>>
         ELSE IF resp.status # 200
         THEN /\ Advance
              /\ UNCHANGED <<wx, fetched>>
         ELSE IF SnapshotValues(resp).error # "none"
         THEN /\ wpc' = "crashed"
              /\ UNCHANGED <<idx, wx, fetched>>
         ELSE /\ wx' = SnapshotValues(resp).row
              /\ fetched' = fetched \cup {idx}
              /\ wpc' = "insert"
              /\ UNCHANGED idx
    /\ dbCalls' = <<>>
    /\ logged' = {}
    /\ UNCHANGED <<db, lat, lon, city_id, tx, now, loaded, txnUpserts>>

SnapshotRowLoopIndex == [city_id |-> idx, fetch_date |-> now] @@ wx

\* lines 84-92: the values bound to the insert; fetch_date is the database's
\* timestamp of the insert
SnapshotRow == [city_id |-> city_id, fetch_date |-> now] @@ wx

\* lines 84-92: insert the snapshot row
InsertSnapshot ==
    /\ WeatherFrame
    /\ wpc = "insert"
    /\ \E dbError \in BOOLEAN :
         IF dbError
         THEN HandleDbError("execute weather_insert_query")
         ELSE /\ tx' = weather_insert_query(tx, SnapshotRow)
              /\ dbCalls' = <<"execute weather_insert_query">>
              /\ logged' = {}
              /\ wpc' = "commit"
              /\ UNCHANGED <<idx, txnUpserts>>
    /\ UNCHANGED <<db, lat, lon, city_id, wx, now, fetched, loaded>>

\* lines 93-94: commit this city's transaction
CommitCity ==
    /\ WeatherFrame
    /\ wpc = "commit"
    /\ \E dbError \in BOOLEAN :
         IF dbError
         THEN /\ HandleDbError("commit")
              /\ UNCHANGED <<db, loaded>>
         ELSE /\ db' = Commit(db, tx)
              /\ txnUpserts' = {}
              /\ dbCalls' = <<"commit">>
              /\ logged' = {}
              /\ loaded' = loaded \cup {idx}
              /\ Advance
              /\ UNCHANGED tx
    /\ UNCHANGED <<lat, lon, city_id, wx, now, fetched>>

\* lines 101-103: close the cursor and the connection; what was never
\* committed is discarded
CloseConnection ==
    /\ WeatherFrame
    /\ wpc = "close"
    /\ tx' = Rollback(db, tx)
    /\ txnUpserts' = {}
    /\ wpc' = "done"
    /\ dbCalls' = <<"close">>
    /\ logged' = {}
    /\ UNCHANGED <<db, idx, lat, lon, city_id, wx, now, fetched, loaded>>

\* --------------------------------------------------------------------------
\* The weather code mapping applied to one code
\* --------------------------------------------------------------------------
CodeInputs == ((0 - MaxCode)..MaxCode) \cup {999}

CodeIdle == codeIn = 0 /\ codeDesc = NULL /\ codeMain = NULL /\ codePc = "idle"

\* lines 74-82 on the code of one weather response
DescribeCode ==
    /\ CodeFrame
    /\ codePc = "start"
    /\ codeDesc' = WeatherDesc(codeIn)
    /\ codeMain' = WeatherMain(codeIn, WeatherDesc(codeIn))
    /\ codePc' = "done"
    /\ UNCHANGED codeIn

\* --------------------------------------------------------------------------
\* load_happiness_data (etl_happiness.py lines 6-59)
\* --------------------------------------------------------------------------
\* One data row of the CSV, keyed by the file's column headers
RawRow(name, v) ==
    [h \in {"Country name", "Ladder score", "upperwhisker",
            "Explained by: Log GDP per capita", "Explained by: Social support",
            "Explained by: Healthy life expectancy",
            "Explained by: Freedom to make life choices",
            "Explained by: Generosity", "Explained by: Perceptions of corruption"} |->
        CASE h = "Country name" -> name
          [] h = "Ladder score" -> v
          [] h = "upperwhisker" -> v + 1
          [] h = "Explained by: Log GDP per capita" -> v + 10
          [] h = "Explained by: Social support" -> v + 20
          [] h = "Explained by: Healthy life expectancy" -> v + 30
          [] h = "Explained by: Freedom to make life choices" -> v + 40
          [] h = "Explained by: Generosity" -> v + 50
          [] h = "Explained by: Perceptions of corruption" -> v + 60]

CsvRowChoices == {RawRow("Finland", 2), RawRow("Kenya", 1), RawRow("Kenya", 2)}

RECURSIVE SeqsUpTo(_, _)
SeqsUpTo(S, n) ==
    IF n = 0 THEN {<<>>}
    ELSE LET shorter == SeqsUpTo(S, n - 1)
         IN  shorter \cup {Append(q, x) : q \in {t \in shorter : Len(t) = n - 1}, x \in S}

CsvFiles == SeqsUpTo(CsvRowChoices, MaxRows)

\* lines 12-30: rename the columns, add the null region, keep the nine columns
FrameRow(raw) ==
    [country_name |-> raw["Country name"],
     region |-> NULL,
     ladder_score |-> raw["Ladder score"],
     gdp_per_capita |-> raw["Explained by: Log GDP per capita"],
     social_support |-> raw["Explained by: Social support"],
     healthy_life_expectancy |-> raw["Explained by: Healthy life expectancy"],
     freedom_to_make_choices |-> raw["Explained by: Freedom to make life choices"],
     generosity |-> raw["Explained by: Generosity"],
     perceptions_of_corruption |-> raw["Explained by: Perceptions of corruption"]]

Frame(file) == [i \in 1..Len(file) |-> FrameRow(file[i])]

InsertOnly(t, row) ==
    IF \E r \in t : r.country_name = row.country_name THEN t ELSE t \cup {row}

InsertDuplicate(t, row) == t \cup {row}

\* INSERT INTO dim_country ... ON CONFLICT (country_name) DO UPDATE SET ...
insert_query(t, row) ==
    IF \E r \in t : r.country_name = row.country_name
    THEN LET r == CHOOSE r \in t : r.country_name = row.country_name
         IN  (t \ {r}) \cup
             {[r EXCEPT !.ladder_score = row.ladder_score,
                        !.gdp_per_capita = row.gdp_per_capita,
                        !.social_support = row.social_support,
                        !.healthy_life_expectancy = row.healthy_life_expectancy,
                        !.freedom_to_make_choices = row.freedom_to_make_choices,
                        !.generosity = row.generosity,
                        !.perceptions_of_corruption = row.perceptions_of_corruption,
                        !.region = row.region]}
    ELSE t \cup {row}

HeadRows == 5

\* df.head()[['country_name', 'ladder_score']]
HeadOf(frame) ==
    [i \in 1..(IF Len(frame) < HeadRows THEN Len(frame) ELSE HeadRows) |->
        [country_name |-> frame[i].country_name, ladder_score |-> frame[i].ladder_score]]

HappyIdle ==
    /\ csv = <<>> /\ hpc = "idle" /\ hIdx = 0 /\ countryTx = {} /\ countryAtStart = {}
    /\ upserts = 0 /\ commits = 0 /\ printed = <<>> /\ loads = 0 /\ completed = 0

\* lines 7-33: read and reshape the CSV, connect
StartLoad ==
    /\ HappyFrame
    /\ hpc \in {"idle", "done", "aborted"}
    /\ loads < MaxLoads
    /\ loads' = loads + 1
    /\ countryTx' = country
    /\ countryAtStart' = country
    /\ hIdx' = 1
    /\ upserts' = 0 /\ commits' = 0 /\ printed' = <<>>
    /\ hpc' = "rows"
    /\ UNCHANGED <<country, csv, completed>>

SkipBadRow == hpc' = hpc /\ hIdx' = hIdx + 1

\* the row loop after a statement failed: the exception is not caught, so the
\* function is left at this row
AbortLoad == hpc' = "aborted" /\ hIdx' = hIdx

\* lines 51-52: one upsert per row; a failing statement raises out of the loader
ExecuteRow ==
    /\ HappyFrame
    /\ hpc = "rows"
    /\ hIdx <= Len(csv)
    /\ \E fails \in BOOLEAN :
         IF fails
         THEN /\ AbortLoad
              /\ UNCHANGED <<countryTx, upserts>>
         ELSE /\ countryTx' = insert_query(countryTx, Frame(csv)[hIdx])
              /\ upserts' = upserts + 1
              /\ hIdx' = hIdx + 1
              /\ UNCHANGED hpc
    /\ UNCHANGED <<country, csv, countryAtStart, commits, printed, loads, completed>>

\* line 54: the single commit after the loop
CommitLoad ==
    /\ HappyFrame
    /\ hpc = "rows"
    /\ hIdx > Len(csv)
    /\ \E fails \in BOOLEAN :
         IF fails
         THEN /\ hpc' = "aborted"
              /\ UNCHANGED <<country, commits>>
         ELSE /\ country' = countryTx
              /\ commits' = commits + 1
              /\ hpc' = "committed"
    /\ UNCHANGED <<csv, hIdx, countryTx, countryAtStart, upserts, printed, loads, completed>>

\* lines 55-59: close, then print the count and the "Top 5 happiest" rows
FinishLoad ==
    /\ HappyFrame
    /\ hpc = "committed"
    /\ printed' = HeadOf(Frame(csv))
    /\ completed' = completed + 1
    /\ hpc' = "done"
    /\ UNCHANGED <<country, csv, hIdx, countryTx, countryAtStart, upserts, commits, loads>>

\* --------------------------------------------------------------------------
\* HappinessReportGenerator (generate_happiness_report.py)
\* --------------------------------------------------------------------------
\* lines 23-40: the join of the three tables for today's snapshots. Numeric
\* columns hold a number in every row of the model, so the two IS NOT NULL
\* conditions hold of each joined row.
ReportQuery(dc, d, day) ==
    {[happiness_score |-> c.ladder_score,
      temperature_celsius |-> s.temperature_celsius,
      country_name |-> c.country_name,
      city_name |-> ci.city_name,
      fetch_date |-> s.fetch_date,
      gdp_per_capita |-> c.gdp_per_capita,
      social_support |-> c.social_support,
      healthy_life_expectancy |-> c.healthy_life_expectancy] :
        <<c, ci, s>> \in {t \in dc \X d.city \X d.snap :
            /\ t[1].country_name = t[2].country_name
            /\ t[2].city_id = t[3].city_id
            /\ t[3].fetch_date = day}}

ReportIdle ==
    /\ rpc = "idle" /\ today = 0 /\ df = NULL /\ stats = NULL /\ written = {}
    /\ cause = NULL

FetchedAnyway(result) == "stats"

\* lines 46-50: an empty result raises ValueError, anything else is returned
AfterFetch(result) == IF result = {} THEN "raised" ELSE "stats"

\* lines 21-53, called at line 306
FetchData ==
    /\ ReportFrame
    /\ rpc = "start"
    /\ \E dbError \in BOOLEAN :
         IF dbError
         THEN /\ rpc' = "raised"
              /\ cause' = "database"
              /\ UNCHANGED df
         ELSE /\ df' = ReportQuery(country, db, today)
              /\ rpc' = AfterFetch(df')
              /\ cause' = IF rpc' = "raised" THEN "empty" ELSE cause
    /\ UNCHANGED <<today, stats, written>>

\* lines 55-79, called at line 309
CalculateStatistics ==
    /\ ReportFrame
    /\ rpc = "stats"
    /\ stats' = [total_cities |-> Cardinality(df),
                 total_countries |-> Cardinality({r.country_name : r \in df})]
    /\ rpc' = "main"
    /\ UNCHANGED <<today, df, written, cause>>

\* lines 81-170, called at line 312
CreateMainVisualization ==
    /\ ReportFrame
    /\ rpc = "main"
    /\ written' = written \cup {"happiness_vs_temperature_global.png"}
    /\ rpc' = "dist"
    /\ UNCHANGED <<today, df, stats, cause>>

\* lines 172-234, called at line 313
CreateDistributionPlots ==
    /\ ReportFrame
    /\ rpc = "dist"
    /\ written' = written \cup {"happiness_distributions.png"}
    /\ rpc' = "insights"
    /\ UNCHANGED <<today, df, stats, cause>>

\* lines 316-345: build the insights and write the text file
WriteInsights ==
    /\ ReportFrame
    /\ rpc = "insights"
    /\ written' = written \cup {"report_insights.txt"}
    /\ rpc' = "done"
    /\ UNCHANGED <<today, df, stats, cause>>

\* --------------------------------------------------------------------------
\* Specifications
\* --------------------------------------------------------------------------
\* One run of the weather loader against a warehouse that is empty or holds
\* what an earlier run at time 1 committed: the first and third city loaded,
\* the second city's row (its weather response was not 200) committed along
\* with the third city's
EarlierRun ==
    [city |-> {[city_id |-> i, city_name |-> CITIES[i],
                country_name |-> CountryOf(CITIES[i])] : i \in 1..3},
     snap |-> {[city_id |-> 1, fetch_date |-> 1] @@ LoadedValues(0),
               [city_id |-> 3, fetch_date |-> 1] @@ LoadedValues(999)}]

Init ==
    /\ db \in {EmptyDb, EarlierRun} /\ country = {}
    /\ WeatherIdle /\ CodeIdle /\ HappyIdle /\ ReportIdle

Next ==
    \/ StartRun
    \/ Geocode
    \/ UpsertCity
    \/ FetchWeather
    \/ InsertSnapshot
    \/ CommitCity
    \/ CloseConnection

Spec == Init /\ [][Next]_vars

\* The weather code mapping on every code of CodeInputs
InitCode ==
    /\ db = EmptyDb /\ country = {}
    /\ WeatherIdle /\ HappyIdle /\ ReportIdle
    /\ codeIn \in CodeInputs /\ codeDesc = NULL /\ codeMain = NULL /\ codePc = "start"

NextCode == DescribeCode

SpecCode == InitCode /\ [][NextCode]_vars

\* The happiness loader, run up to MaxLoads times on one CSV file, against a
\* dim_country that is empty or holds a row of an earlier load
OldKenya == [FrameRow(RawRow("Kenya", 9)) EXCEPT !.region = "Sub-Saharan Africa"]

InitHappiness ==
    /\ db = EmptyDb
    /\ country \in {{}, {OldKenya}, {FrameRow(RawRow("Peru", 5))}}
    /\ WeatherIdle /\ CodeIdle /\ ReportIdle
    /\ csv \in CsvFiles
    /\ hpc = "idle" /\ hIdx = 0 /\ countryTx = {} /\ countryAtStart = {}
    /\ upserts = 0 /\ commits = 0 /\ printed = <<>> /\ loads = 0 /\ completed = 0

NextHappiness ==
    \/ StartLoad
    \/ ExecuteRow
    \/ CommitLoad
    \/ FinishLoad

SpecHappiness == InitHappiness /\ [][NextHappiness]_vars

\* The report generator, invoked once on a warehouse the two loaders can leave
ReportCountries ==
    {FrameRow(RawRow("Kenya", 4)), FrameRow(RawRow("United Kingdom", 7)),
     FrameRow(RawRow("Peru", 6))}

ReportCities ==
    {[city_id |-> i, city_name |-> CITIES[i], country_name |-> CountryOf(CITIES[i])] :
        i \in 1..N}

ReportSnapshots ==
    {[city_id |-> 1, fetch_date |-> 1] @@ LoadedValues(2),
     [city_id |-> 1, fetch_date |-> 2] @@ LoadedValues(0),
     [city_id |-> 2, fetch_date |-> 1] @@ LoadedValues(999),
     [city_id |-> 3, fetch_date |-> 2] @@ LoadedValues(0)}

InitReport ==
    /\ country \in SUBSET ReportCountries
    /\ db \in {[city |-> ReportCities, snap |-> sn] : sn \in SUBSET ReportSnapshots}
    /\ WeatherIdle /\ CodeIdle /\ HappyIdle
    /\ rpc = "start" /\ today \in {1, 2} /\ df = NULL /\ stats = NULL /\ written = {}
    /\ cause = NULL

NextReport ==
    \/ FetchData
    \/ CalculateStatistics
    \/ CreateMainVisualization
    \/ CreateDistributionPlots
    \/ WriteInsights

SpecReport == InitReport /\ [][NextReport]_vars

\* --------------------------------------------------------------------------
\* Properties
\* --------------------------------------------------------------------------
CityRowsOf(d, i) == {r \in d.city : r.city_name = CITIES[i]}

\* the snapshot rows of city i carrying fetch timestamp t
SnapsOf(d, i, t) ==
    {s \in d.snap : s.fetch_date = t /\ \E r \in CityRowsOf(d, i) : r.city_id = s.city_id}

ErrorLogged == \E r \in logged : r.level = "error"

C2_ApiFailureNeverFatal == wpc # "crashed"

\* C3: geocoding that raises, returns a non-200 status or an empty array
\* yields the "not found" pair, and on that pair the loop makes no database
\* call, leaves the transaction and the committed state as they are, and moves
\* to the next city.
C3_NoDbForUngeocoded ==
    /\ \A resp \in GeoResponses :
         (resp.raises \/ resp.status # 200 \/ resp.results = <<>>)
            => (fetch_coordinates(resp).lat = None /\ fetch_coordinates(resp).lon = None)
    /\ [][(wpc = "geo" /\ lat' = None /\ lon' = None)
            => /\ dbCalls' = <<>>
               /\ tx' = tx /\ db' = db /\ txnUpserts' = txnUpserts
               /\ idx' = idx + 1
               /\ wpc' = (IF idx + 1 > N THEN "close" ELSE "geo")]_vars

\* the second city was just skipped after its geocoding raised, while the
\* first city's upsert is still pending in the open transaction
C3_Witness ==
    /\ idx = 3 /\ wpc = "geo"
    /\ lat = None /\ lon = None
    /\ logged = {[level |-> "warning", city |-> 2]}
    /\ dbCalls = <<>>
    /\ tx # db

\* C4 as stated: after a run, every city whose geocoding and weather fetch
\* both succeeded has exactly one dim_city row and exactly one snapshot row of
\* this run.
C4_OneRowPerFetchedCity ==
    wpc = "done" =>
        \A i \in fetched :
            /\ Cardinality(CityRowsOf(db, i)) = 1
            /\ Cardinality(SnapsOf(db, i, now)) = 1

\* C4 amended: every city whose geocoding and weather fetch both succeeded and
\* whose transaction was committed has exactly one dim_city row and exactly
\* one snapshot row carrying the run's conflict key; no city name ever has two
\* dim_city rows, no conflict key ever has two snapshot rows, and a committed
\* snapshot row is never replaced or removed.
C4_OneRowPerLoadedCity ==
    /\ [](\A i \in loaded :
            /\ Cardinality(CityRowsOf(db, i)) = 1
            /\ Cardinality(SnapsOf(db, i, now)) = 1)
    /\ [](\A i \in 1..N : Cardinality(CityRowsOf(db, i)) <= 1)
    /\ [](\A s1, s2 \in db.snap : SnapshotKey(s1) = SnapshotKey(s2) => s1 = s2)
    /\ [][db.snap \subseteq db'.snap]_vars

\* the first city was loaded again at the timestamp of the snapshot it already
\* had, with other values: the stored row is the earlier one
C4_Witness ==
    /\ 1 \in loaded /\ idx = 2
    /\ Cardinality(CityRowsOf(db, 1)) = 1
    /\ \E s \in db.snap :
         /\ SnapshotKey(s) = <<city_id, now>>
         /\ s.weather_description # wx.weather_description

\* C5: every committed snapshot references a committed dim_city row, and every
\* snapshot a commit adds references a city upserted in the transaction being
\* committed.
C5_SnapshotHasParent ==
    /\ [](\A s \in db.snap : \E r \in db.city : r.city_id = s.city_id)
    /\ [][\A s \in db'.snap \ db.snap : s.city_id \in txnUpserts]_vars

\* a run that stopped part-way (the weather request of a later city raised)
\* after committing a snapshot
C5_Witness ==
    /\ wpc = "crashed"
    /\ loaded # {}
    /\ \E i \in loaded : SnapsOf(db, i, now) # {}

HasPrefix(s, pre) == Len(s) >= Len(pre) /\ SubSeq(s, 1, Len(pre)) = pre

\* s is the decimal numeral of n as Python prints it
IsDecimalOf(s, n) ==
    /\ IsNumeric(s)
    /\ ParseFloat(s) = n
    /\ (Head(s) = "-") = (n < 0)
    /\ LET digits == IF Head(s) = "-" THEN Tail(s) ELSE s
       IN  Len(digits) > 1 => Head(digits) # "0"

\* w is the first whitespace-separated word of s
IsFirstWord(w, s) ==
    /\ w # <<>>
    /\ \A i \in 1..Len(w) : ~IsSpace(w[i])
    /\ HasPrefix(s, w)
    /\ Len(s) > Len(w) => IsSpace(s[Len(w) + 1])

\* C6: the description is the table's entry for a code in the table and
\* "Weather code N" otherwise; the category is "Clouds" exactly for codes 1 to
\* 3 and the first word of the description otherwise; code 0 gives "Clear",
\* code 999 gives "Weather code 999" and "Weather".
C6_CodeMapping ==
    codePc = "done" =>
        /\ codeIn \in DescribedCodes => codeDesc = descriptions(codeIn)
        /\ codeIn \notin DescribedCodes =>
              /\ HasPrefix(codeDesc, WeatherCodePrefix)
              /\ IsDecimalOf(SubSeq(codeDesc, Len(WeatherCodePrefix) + 1, Len(codeDesc)),
                             codeIn)
        /\ (codeMain = Clouds) <=> (1 <= codeIn /\ codeIn <= 3)
        /\ ~(1 <= codeIn /\ codeIn <= 3) => IsFirstWord(codeMain, codeDesc)
        /\ codeIn = 0 => codeMain = <<"C", "l", "e", "a", "r">>
        /\ codeIn = 999 =>
              /\ codeDesc = <<"W", "e", "a", "t", "h", "e", "r", " ", "c", "o", "d", "e",
                              " ", "9", "9", "9">>
              /\ codeMain = <<"W", "e", "a", "t", "h", "e", "r">>

C6_Witness == codePc = "done" /\ codeIn = 999 /\ codeMain # Clouds

\* C7: after a completed load, no row left out of the printed "Top 5" has a
\* higher ladder_score than a printed row (the printed rows are the five
\* highest).
C7_PrintedAreFiveHighest ==
    hpc = "done" =>
        /\ Len(printed) = (IF Len(csv) < HeadRows THEN Len(csv) ELSE HeadRows)
        /\ \A i \in 1..Len(printed) : \A j \in (Len(printed) + 1)..Len(csv) :
              Frame(csv)[j].ladder_score <= printed[i].ladder_score

\* C8: until the single commit after the last row the committed dim_country is
\* the one the load started from; a load that reaches the commit has executed
\* one upsert per CSV row and committed once; a load that a failing statement
\* ended has committed nothing and has executed only the rows before the
\* failing one.
C8_AllOrNothing ==
    /\ hpc \in {"rows", "aborted"} => country = countryAtStart /\ commits = 0
    /\ hpc \in {"committed", "done"} => upserts = Len(csv) /\ commits = 1
    /\ hpc = "aborted" => upserts = hIdx - 1
    /\ upserts <= Len(csv)

\* a load ended by the failure of a row after earlier rows were upserted in the
\* open transaction
C8_Witness ==
    /\ hpc = "aborted"
    /\ upserts >= 1 /\ upserts < Len(csv)
    /\ countryTx # country

\* the index of the last CSV row naming the country
LastRowOf(file, name) ==
    CHOOSE i \in 1..Len(file) :
        /\ file[i]["Country name"] = name
        /\ \A j \in (i + 1)..Len(file) : file[j]["Country name"] # name

CsvCountries(file) == {file[i]["Country name"] : i \in 1..Len(file)}

OneRowPerCountry(t) == \A r1, r2 \in t : r1.country_name = r2.country_name => r1 = r2

\* C10: dim_country never holds two rows of one country; after a load reached
\* its commit each country of the CSV has the CSV's values (those of its last
\* row) in every numeric field and a null region, the other countries' rows
\* are as they were, and a load that follows a completed load of the same CSV
\* leaves dim_country as it found it.
C10_UpsertIdempotent ==
    /\ OneRowPerCountry(country) /\ OneRowPerCountry(countryTx)
    /\ hpc \in {"committed", "done"} =>
          /\ \A name \in CsvCountries(csv) :
                LET raw == csv[LastRowOf(csv, name)]
                IN  [country_name |-> name,
                     region |-> NULL,
                     ladder_score |-> raw["Ladder score"],
                     gdp_per_capita |-> raw["Explained by: Log GDP per capita"],
                     social_support |-> raw["Explained by: Social support"],
                     healthy_life_expectancy |->
                         raw["Explained by: Healthy life expectancy"],
                     freedom_to_make_choices |->
                         raw["Explained by: Freedom to make life choices"],
                     generosity |-> raw["Explained by: Generosity"],
                     perceptions_of_corruption |->
                         raw["Explained by: Perceptions of corruption"]] \in country
          /\ \A r \in countryAtStart :
                r.country_name \notin CsvCountries(csv) => r \in country
          /\ Cardinality(country) =
                Cardinality({r.country_name : r \in countryAtStart} \cup CsvCountries(csv))
    /\ (hpc = "committed" /\ completed >= 1) => country = countryAtStart

\* the second completed load of a CSV that names Kenya twice
C10_Witness ==
    /\ hpc = "done" /\ completed = 2
    /\ csv = <<RawRow("Kenya", 2), RawRow("Finland", 2), RawRow("Kenya", 1)>>
    /\ country = {FrameRow(RawRow("Kenya", 1)), FrameRow(RawRow("Finland", 2))}

\* C9: when the report query returns no row, generate_report has raised, has
\* computed no statistics and has written no file.
C9_EmptyRaises ==
    (rpc # "start" /\ cause # "database" /\ df = {}) =>
        /\ rpc = "raised"
        /\ cause = "empty"
        /\ written = {}
        /\ stats = NULL

\* the warehouse holds countries and snapshots, but none that join for today
C9_Witness ==
    /\ rpc = "raised" /\ cause = "empty"
    /\ country # {} /\ db.snap # {}
    /\ written = {}

Called(calls, name) == \E i \in 1..Len(calls) : calls[i] = name

\* C11: the rollback that handles a database error in city k's steps undoes
\* no write made while an earlier city of the run was processed: the
\* transaction's dim_city rows of every earlier city are as they were.
C11_RollbackOnlyOwnWrites ==
    [][ErrorLogged' =>
          \A j \in 1..(idx - 1) : CityRowsOf(tx', j) = CityRowsOf(tx, j)]_vars

\* C12: commit is called only right after a successful snapshot insert; a
\* non-200 weather response leaves the city's upsert pending in the open
\* transaction; the committed state changes only by a successful commit, which
\* publishes the whole pending transaction; a rollback or the closing of the
\* connection discards whatever is pending.
C12_PendingUntilCommit ==
    /\ [][Called(dbCalls', "commit") =>
              wpc = "commit" /\ dbCalls = <<"execute weather_insert_query">>]_vars
    /\ [][(wpc = "fetch" /\ wpc' \in {"geo", "close"}) =>
              /\ tx' = tx /\ db' = db /\ dbCalls' = <<>>
              /\ city_id \in txnUpserts'
              /\ CityRowsOf(tx', idx) # {}]_vars
    /\ [][db' # db => dbCalls' = <<"commit">> /\ db' = tx]_vars
    /\ [][(Called(dbCalls', "rollback") \/ Called(dbCalls', "close")) =>
              db' = db /\ tx' = db /\ txnUpserts' = {}]_vars

\* in a warehouse that was empty, the first city's weather response was
\* non-200 and the second city's commit has made the first city's row durable
C12_Witness ==
    /\ wpc = "geo" /\ idx = 3
    /\ loaded = {2}
    /\ CityRowsOf(db, 1) # {} /\ CityRowsOf(db, 3) = {}
    /\ SnapsOf(db, 1, now) = {}

\* C13: the loop skips a city exactly when geocoding returned the "not found"
\* pair; every latitude/longitude pair, zero included, goes on to the upsert.
C13_SkipsOnlySentinel ==
    [][wpc = "geo" =>
          /\ (idx' = idx + 1) <=> (lat' = None /\ lon' = None)
          /\ (wpc' = "upsert") <=> (lat' # None /\ lon' # None)]_vars

\* C14: fetch_coordinates returns both coordinates or neither, and whenever it
\* returns neither it has logged a warning for the city.
C14_SentinelLogsWarning ==
    [][wpc = "geo" =>
          /\ (lat' = None) <=> (lon' = None)
          /\ lat' = None => [level |-> "warning", city |-> idx] \in logged']_vars

====
